---------------------------- MODULE Spec2Model ----------------------------
(***************************************************************************)
(* Model of transport-nearby: the import pipeline of                       *)
(* nearby-create-database.py (feeds -> one SQLite store, reconciliation)   *)
(* and the query engine of nearby-python-serve.py (nearest stops/routes,   *)
(* direction classification).                                              *)
(*                                                                         *)
(* Text is modelled with TLA+ strings (Len, SubSeq and \o act on them as   *)
(* Python's len, slicing and +).  Floating-point quantities are modelled   *)
(* in fixed point; the unit of every such quantity is stated where it is   *)
(* defined.                                                                *)
(***************************************************************************)
EXTENDS Integers, Sequences, FiniteSets, TLC

VARIABLES
    feeds,        \* the downloaded GTFS files: tag -> tables of raw rows
    db,           \* the SQLite store: table name -> set of rows
    step,         \* number of process_steps already run
    ids,          \* identifier set computed by the step that ran last
    failed,       \* a step raised an exception: the run is over
    result,       \* the last request to find_facilities and its answer
    requests,     \* the requests being served: request -> where it stands
    imports,      \* single-stop feeds imported so far: tag and raw stop row
    raw_name,     \* the text handed to normalize_name
    corrections_txt, \* the correction list loaded from the corrections file
    normalized,   \* what normalize_name returned, call after call
    points,       \* the two positions handed to compare_positions
    direction     \* what compare_positions returned for them

vars == <<feeds, db, step, ids, failed, result, requests, imports, raw_name, corrections_txt,
          normalized, points, direction>>

-----------------------------------------------------------------------------
(* Text primitives.                                                        *)

CharAt(s, i) == SubSeq(s, i, i)

\* The cased characters of the texts handled: each lower-case letter with
\* its upper-case form, and the converse.
UpperOf ==
    [a |-> "A", b |-> "B", c |-> "C", d |-> "D", e |-> "E", f |-> "F", g |-> "G", h |-> "H", i |-> "I",
     j |-> "J", k |-> "K", l |-> "L", m |-> "M", n |-> "N", o |-> "O", p |-> "P", q |-> "Q", r |-> "R",
     s |-> "S", t |-> "T", u |-> "U", v |-> "V", w |-> "W", x |-> "X", y |-> "Y", z |-> "Z"]

LowerOf ==
    [A |-> "a", B |-> "b", C |-> "c", D |-> "d", E |-> "e", F |-> "f", G |-> "g", H |-> "h", I |-> "i",
     J |-> "j", K |-> "k", L |-> "l", M |-> "m", N |-> "n", O |-> "o", P |-> "p", Q |-> "q", R |-> "r",
     S |-> "s", T |-> "t", U |-> "u", V |-> "v", W |-> "w", X |-> "x", Y |-> "y", Z |-> "z"]

\* The cased test taking lower-case letters only.
IsCased_LowerOnly(c) == c \in DOMAIN UpperOf

IsCased(c) == c \in DOMAIN UpperOf \/ c \in DOMAIN LowerOf

ToUpper(c) == IF c \in DOMAIN UpperOf THEN UpperOf[c] ELSE c

ToLower(c) == IF c \in DOMAIN LowerOf THEN LowerOf[c] ELSE c

RECURSIVE IndexIn(_, _, _)
\* Position of character c in text from position i on, 0 when absent.
IndexIn(text, c, i) ==
    IF i > Len(text) THEN 0
    ELSE IF CharAt(text, i) = c THEN i
    ELSE IndexIn(text, c, i + 1)

RECURSIVE TitleFrom(_, _, _)
\* str.title(): a cased character is upper-cased when the previous character
\* is uncased (or there is none) and lower-cased otherwise.
TitleFrom(s, i, prevCased) ==
    IF i > Len(s) THEN ""
    ELSE LET c == CharAt(s, i) IN
         (IF prevCased THEN ToLower(c) ELSE ToUpper(c))
             \o TitleFrom(s, i + 1, IsCased(c))

Title(s) == TitleFrom(s, 1, FALSE)

StartsWith(s, prefix) ==
    Len(s) >= Len(prefix) /\ SubSeq(s, 1, Len(prefix)) = prefix

RECURSIVE ReplaceFrom(_, _, _, _)
\* str.replace(bad, good) for a non-empty bad: leftmost occurrences, not
\* overlapping, the scan resuming after each replaced occurrence.
ReplaceFrom(s, i, bad, good) ==
    IF i > Len(s) THEN ""
    ELSE IF i + Len(bad) - 1 <= Len(s) /\ SubSeq(s, i, i + Len(bad) - 1) = bad
         THEN good \o ReplaceFrom(s, i + Len(bad), bad, good)
         ELSE CharAt(s, i) \o ReplaceFrom(s, i + 1, bad, good)

RECURSIVE Interleave(_, _, _)
\* str.replace("", good): good before every character and at the end.
Interleave(s, i, good) ==
    IF i > Len(s) THEN good
    ELSE good \o CharAt(s, i) \o Interleave(s, i + 1, good)

Replace(s, bad, good) ==
    IF bad = "" THEN Interleave(s, 1, good) ELSE ReplaceFrom(s, 1, bad, good)

Contains(s, sub) ==
    \E i \in 1..(Len(s) - Len(sub) + 1) : SubSeq(s, i, i + Len(sub) - 1) = sub

RECURSIVE LikeFrom(_, _, _, _)
\* SQLite's LIKE: '_' is any one character, '%' any run of characters,
\* letters compare without regard to case.
LikeFrom(s, i, pat, j) ==
    IF j > Len(pat) THEN i > Len(s)
    ELSE IF CharAt(pat, j) = "%"
         THEN \E k \in i..(Len(s) + 1) : LikeFrom(s, k, pat, j + 1)
    ELSE IF i > Len(s) THEN FALSE
    ELSE IF CharAt(pat, j) = "_" THEN LikeFrom(s, i + 1, pat, j + 1)
    ELSE ToUpper(CharAt(s, i)) = ToUpper(CharAt(pat, j))
             /\ LikeFrom(s, i + 1, pat, j + 1)

Like(s, pat) == LikeFrom(s, 1, pat, 1)


-----------------------------------------------------------------------------
(* Numbers.  Degrees are integers in micro-degrees (1e-6 deg), radians in   *)
(* nano-radians (1e-9 rad), distances in millimetres.                      *)

DigitValue ==
    ("0" :> 0) @@ ("1" :> 1) @@ ("2" :> 2) @@ ("3" :> 3) @@ ("4" :> 4) @@
    ("5" :> 5) @@ ("6" :> 6) @@ ("7" :> 7) @@ ("8" :> 8) @@ ("9" :> 9)

RECURSIVE ParseDigits(_, _, _, _)
\* Value of the digits of s in positions i..last, after the accumulator acc.
ParseDigits(s, i, last, acc) ==
    IF i > last THEN acc
    ELSE ParseDigits(s, i + 1, last, acc * 10 + DigitValue[CharAt(s, i)])

RECURSIVE Pow10(_)
Pow10(n) == IF n = 0 THEN 1 ELSE 10 * Pow10(n - 1)

\* float(text) for a decimal literal "[-]ddd[.dddddd]" of at most six
\* decimals, in micro-units.
ParseFloat(text) ==
    LET neg    == StartsWith(text, "-")
        first  == IF neg THEN 2 ELSE 1
        dot    == IndexIn(text, ".", 1)
        intEnd == IF dot = 0 THEN Len(text) ELSE dot - 1
        decs   == IF dot = 0 THEN 0 ELSE Len(text) - dot
        whole  == ParseDigits(text, first, intEnd, 0)
        frac   == IF dot = 0 THEN 0
                  ELSE ParseDigits(text, dot + 1, Len(text), 0) * Pow10(6 - decs)
        mag    == whole * 1000000 + frac
    IN  IF neg THEN 0 - mag ELSE mag

\* math.radians: micro-degrees to nano-radians (pi/180 = 0.0174533),
\* computed in two parts to stay within 32 bits.
Radians(microdeg) ==
    (microdeg \div 10000) * 174533 + ((microdeg % 10000) * 174533) \div 10000

RECURSIVE ISqrtIn(_, _, _)
\* Largest r in lo..hi with r * r <= n.
ISqrtIn(n, lo, hi) ==
    IF lo >= hi THEN lo
    ELSE LET mid == (lo + hi + 1) \div 2 IN
         IF mid * mid <= n THEN ISqrtIn(n, mid, hi) ELSE ISqrtIn(n, lo, mid - 1)

ISqrt(n) == ISqrtIn(n, 0, 46340)

Abs(x) == IF x < 0 THEN 0 - x ELSE x

EARTH_DIAMETER == 12742000

\* Latitude (nano-radians) around which cos is linearised: 49.4 degrees.
RefLatitude == Radians(49400000)

\* cos(lat) in thousandths, linearised around RefLatitude
\* (cos = 0.651, -sin = -0.759 there); exact to 1e-3 over the bounding box.
CosMilli(lat) == 651 - (((lat - RefLatitude) \div 1000) * 759) \div 1000000

\* Offsets (nano-radians) up to which the haversine is evaluated; any point
\* beyond either is more than 370 m away and is reported at FarAway.
MaxDeltaLat == 60000
MaxDeltaLon == 90000
FarAway == 1000000

\* gps_distance, and the same expression in the SQL of find_stations: the
\* haversine on a sphere of diameter EARTH_DIAMETER, in millimetres.  For the
\* offsets evaluated sin(x) = x and asin(x) = x to better than 1e-9 relative.
gps_distance(lat1, lon1, lat2, lon2) ==
    LET dlat == lat2 - lat1
        dlon == lon2 - lon1
    IN  IF Abs(dlat) > MaxDeltaLat \/ Abs(dlon) > MaxDeltaLon THEN FarAway
        ELSE LET a     == Abs(dlat) \div 2
                 b     == Abs(dlon) \div 2
                 coscos == (CosMilli(lat1) * CosMilli(lat2)) \div 1000
                 h     == a * a + ((b * b) \div 1000) * coscos
             IN  ((EARTH_DIAMETER \div 1000) * ISqrt(h)) \div 1000

-----------------------------------------------------------------------------
(* Program constants of nearby-create-database.py.                         *)

\* Bounding box of the Metropole Rouen Normandie, in micro-degrees.
MRN_FAR_EAST  == [lat |-> 49486820, lon |-> 774460]
MRN_FAR_NORTH == [lat |-> 49546760, lon |-> 855650]
MRN_FAR_WEST  == [lat |-> 49375550, lon |-> 1289840]
MRN_FAR_SOUTH == [lat |-> 49250660, lon |-> 1005260]

Max(a, b) == IF a >= b THEN a ELSE b
Min(a, b) == IF a <= b THEN a ELSE b

MAX_LATITUDE  == Max(MRN_FAR_NORTH.lat, MRN_FAR_SOUTH.lat)
MIN_LATITUDE  == Min(MRN_FAR_NORTH.lat, MRN_FAR_SOUTH.lat)
MAX_LONGITUDE == Max(MRN_FAR_EAST.lon, MRN_FAR_WEST.lon)
MIN_LONGITUDE == Min(MRN_FAR_EAST.lon, MRN_FAR_WEST.lon)

FIELD_IDS == {"trip_id", "stop_id", "route_id", "service_id", "cycle_id"}

FIELD_DROPS ==
    {"agency_id", "stop_url", "stop_timezone", "stop_desc", "zone_id",
     "route_desc", "route_color", "route_text_color", "route_url",
     "route_sort_order", "stop_headsign", "shape_dist_traveled", "timepoint",
     "trip_short_name", "trip_headsign", "block_id", "shape_id",
     "arrival_time", "departure_time", "pickup_type", "drop_off_type",
     "monday", "tuesday", "wednesday", "thursday", "friday", "saturday",
     "sunday", "stop_code", "location_type", "parent_station",
     "bikes_allowed", "trip_bikes_allowed", "platform_code",
     "stop_times.route_short_name", "trips.route_short_name",
     "ticketing_trip_id", "ticketing_type"}

\* The namespace tag each import_*_gtfs_data passes to import_gtfs_data, in
\* the order of process_steps.
GtfsTags == <<"BBC-", "FLX-", "AST-", "ATM-">>

-----------------------------------------------------------------------------
(* normalize_name and import_table.                                        *)

RECURSIVE ApplyCorrections(_, _, _)
\* The loop of normalize_name: corrections i.. applied one after the other,
\* each to the text the previous ones left.
ApplyCorrections(name, corrections, i) ==
    IF i > Len(corrections) THEN name
    ELSE ApplyCorrections(Replace(name, corrections[i][1], corrections[i][2]),
                          corrections, i + 1)

normalize_name(name, corrections) == ApplyCorrections(Title(name), corrections, 1)

\* The values inserted with the identifier fields left as they come.
ImportRecord_NoTag(table_name, base_id, record) ==
    [key \in {k \in DOMAIN record :
                 k \notin FIELD_DROPS /\ (table_name \o "." \o k) \notin FIELD_DROPS}
        |-> record[key]]

\* The values import_table inserts for one record: dropped fields left out,
\* identifier fields prefixed with base_id.
ImportRecord(table_name, base_id, record) ==
    [key \in {k \in DOMAIN record :
                 k \notin FIELD_DROPS /\ (table_name \o "." \o k) \notin FIELD_DROPS}
        |-> IF key \in FIELD_IDS THEN base_id \o record[key] ELSE record[key]]

\* import_table over a list of records whose keys are distinct.
import_table(table, table_name, base_id, records) ==
    table \cup {ImportRecord(table_name, base_id, r) : r \in records}

-----------------------------------------------------------------------------
(* import_gtfs_data.                                                       *)

\* The corrections file read by load_corrections (a sample of its lines).
CORRECTIONS == << <<"Chu", "CHU">>, <<" De ", " de ">> >>

\* The test of the stops loop: a stop is skipped when its latitude or its
\* longitude lies outside the bounding box.
\* The bounding-box test with the bounds themselves rejected.
KeepStop_Exclusive(latitude, longitude) ==
    /\ ~(latitude <= MIN_LATITUDE \/ latitude >= MAX_LATITUDE)
    /\ ~(longitude <= MIN_LONGITUDE \/ longitude >= MAX_LONGITUDE)

KeepStop(latitude, longitude) ==
    /\ ~(latitude < MIN_LATITUDE \/ latitude > MAX_LATITUDE)
    /\ ~(longitude < MIN_LONGITUDE \/ longitude > MAX_LONGITUDE)

\* datas["routes"]: every route, its long name normalised.
LoadRoutes(feed) ==
    {[row EXCEPT !.route_long_name = normalize_name(row.route_long_name, CORRECTIONS)]
        : row \in feed.routes}

\* datas["stops"]: the stops inside the bounding box, name normalised,
\* coordinates converted to radians.
LoadStops(feed) ==
    {[row EXCEPT !.stop_name = normalize_name(row.stop_name, CORRECTIONS),
                 !.stop_lat  = Radians(ParseFloat(row.stop_lat)),
                 !.stop_lon  = Radians(ParseFloat(row.stop_lon))]
        : row \in {r \in feed.stops :
                      KeepStop(ParseFloat(r.stop_lat), ParseFloat(r.stop_lon))}}

\* load_csv_from_zip finds routes.txt, stops.txt, trips.txt and
\* stop_times.txt in the archive; it raises KeyError for a file that is not
\* there, before the store is opened.
Readable(feed) == {"routes", "stops", "trips", "stop_times"} \subseteq DOMAIN feed

\* calendar.txt is read when the archive holds it, calendar_dates.txt
\* otherwise; calendar_dates is imported when it holds rows.
import_gtfs_data(d, feed, base_id) ==
    LET hasCalendar == "calendar" \in DOMAIN feed
        dates       == IF hasCalendar THEN {} ELSE feed.calendar_dates
        d1 == [d EXCEPT
                 !.routes     = import_table(@, "routes", base_id, LoadRoutes(feed)),
                 !.stops      = import_table(@, "stops", base_id, LoadStops(feed)),
                 !.stop_times = import_table(@, "stop_times", base_id, feed.stop_times),
                 !.trips      = import_table(@, "trips", base_id, feed.trips)]
    IN  IF dates # {}
        THEN [d1 EXCEPT !.calendar_dates =
                            import_table(@, "calendar_dates", base_id, dates)]
        ELSE [d1 EXCEPT !.calendar =
                            import_table(@, "calendar", base_id, feed.calendar)]

-----------------------------------------------------------------------------
(* The reconciliation steps, each a function of the store.                 *)

\* A DELETE whose WHERE clause is left out when the list is empty: every row
\* goes.
DeleteWhereIn_AllWhenEmpty(table, field, values) ==
    IF values = {} THEN {} ELSE {row \in table : row[field] \notin values}

\* DELETE FROM table WHERE field IN (values): SQLite takes an empty list
\* after IN as matching no row.
DeleteWhereIn(table, field, values) == {row \in table : row[field] \notin values}

\* The rows sql_insert(..., ignore=True) adds: a row whose (stop_id, route_id)
\* is already in the table is ignored.
\* (The same key with the school flag added to it.)
CacheKey_WithSchool(row) == <<row.stop_id, row.route_id, row.school>>
CacheKey(row) == <<row.stop_id, row.route_id>>

\* route_stops with the school test cut down to the feed's tag.
RouteStops_AnyAstuce(d) ==
    {[stop_id  |-> st.stop_id,
      route_id |-> t.route_id,
      school   |-> IF StartsWith(t.service_id, "AST-") THEN 1 ELSE 0]
        : <<st, t>> \in {p \in d.stop_times \X d.trips : p[1].trip_id = p[2].trip_id}}

\* The DISTINCT join of stop_times and trips, as route_stops.
RouteStops(d) ==
    {[stop_id  |-> st.stop_id,
      route_id |-> t.route_id,
      school   |-> IF StartsWith(t.service_id, "AST-IST") THEN 1 ELSE 0]
        : <<st, t>> \in {p \in d.stop_times \X d.trips : p[1].trip_id = p[2].trip_id}}

\* The stores generate_gtfs_cache can leave: the rows of route_stops are
\* inserted in the order the SELECT returns them, which SQL leaves open, so
\* of several rows with one key any one may be the row kept.
generate_gtfs_cache(d) ==
    LET rows    == {ImportRecord("cache_stop_routes", "", r) : r \in RouteStops(d)}
        oldKeys == {CacheKey(r) : r \in d.cache_stop_routes}
        newKeys == {CacheKey(r) : r \in rows} \ oldKeys
        picks   == {f \in [newKeys -> {0, 1}] :
                       \A k \in newKeys :
                           [stop_id |-> k[1], route_id |-> k[2], school |-> f[k]] \in rows}
    IN  {[d EXCEPT !.cache_stop_routes =
              @ \cup {[stop_id |-> k[1], route_id |-> k[2], school |-> f[k]] : k \in newKeys}]
            : f \in picks}

\* The identifier sets remove_trips derives from trip_ids.
TripStopIds(d, trip_ids) ==
    {st.stop_id : st \in {x \in d.stop_times : x.trip_id \in trip_ids}}

TripRouteIds(d, trip_ids) ==
    {t.route_id : t \in {x \in d.trips : x.trip_id \in trip_ids}}

remove_trips(d, trip_ids) ==
    LET stop_ids  == TripStopIds(d, trip_ids)
        route_ids == TripRouteIds(d, trip_ids)
    IN  [d EXCEPT
            !.trips  = DeleteWhereIn(@, "trip_id", trip_ids),
            !.stops  = DeleteWhereIn(@, "stop_id", stop_ids),
            !.cache_stop_routes = DeleteWhereIn(@, "stop_id", stop_ids),
            !.routes = DeleteWhereIn(@, "route_id", route_ids)]

\* Trips targeting elevators, by service identifier.
ElevatorTripIds(d) ==
    {t.trip_id : t \in {x \in d.trips :
                           \/ Like(x.service_id, "AST-ASCESC%")
                           \/ Like(x.service_id, "AST-___ASC")}}

\* The elevator stops kept and given an empty name, not deleted.
DeleteElevatorStops_Renamed(d) ==
    [d EXCEPT !.stops = {IF Like(row.stop_id, "AST-___ASC")
                         THEN [row EXCEPT !.stop_name = ""] ELSE row : row \in @}]

\* The deletion by pattern left out.
DeleteElevatorStops_Kept(d) == d

\* DELETE FROM stops WHERE stop_id LIKE 'AST-___ASC'
DeleteElevatorStops(d) ==
    [d EXCEPT !.stops = {row \in @ : ~Like(row.stop_id, "AST-___ASC")}]

remove_elevators(d) ==
    DeleteElevatorStops(remove_trips(DeleteElevatorStops(d), ElevatorTripIds(d)))

\* The long names with only the "<>" removed form.
AstuceLongNames_StripOnly(d) ==
    {Replace(r.route_long_name, "<>", "") : r \in {x \in d.routes : Like(x.route_id, "AST-%")}}

\* The long names remove_atoumod_duplicates looks for: each AST- route's long
\* name with "<>" removed, and with "<>" replaced by "/".
AstuceLongNames(d) ==
    UNION {{Replace(r.route_long_name, "<>", ""), Replace(r.route_long_name, "<>", "/")}
              : r \in {x \in d.routes : Like(x.route_id, "AST-%")}}

\* The routes with one of the names, of whatever feed.
AtoumodDuplicateIds_AnyFeed(d) ==
    {r.route_id : r \in {x \in d.routes : x.route_long_name \in AstuceLongNames(d)}}

AtoumodDuplicateIds(d) ==
    {r.route_id : r \in {x \in d.routes :
                            /\ x.route_long_name \in AstuceLongNames(d)
                            /\ Like(x.route_id, "ATM-%")}}

remove_atoumod_duplicates(d) ==
    LET route_ids == AtoumodDuplicateIds(d)
    IN  [d EXCEPT
            !.trips  = DeleteWhereIn(@, "route_id", route_ids),
            !.routes = DeleteWhereIn(@, "route_id", route_ids),
            !.cache_stop_routes = DeleteWhereIn(@, "route_id", route_ids)]

\* stop_times LEFT JOIN stops WHERE stops.stop_id IS NULL
OrphanedStopIds(d) ==
    {st.stop_id : st \in {x \in d.stop_times :
                             \A s \in d.stops : s.stop_id # x.stop_id}}

remove_orphaned_stop_times(d) ==
    [d EXCEPT !.stop_times = DeleteWhereIn(@, "stop_id", OrphanedStopIds(d))]

\* trips LEFT JOIN stop_times WHERE stop_times.trip_id IS NULL
OrphanedTripIds(d) ==
    {t.trip_id : t \in {x \in d.trips :
                           \A st \in d.stop_times : st.trip_id # x.trip_id}}

\* The orphaned trips deleted by the wrong column.
remove_orphaned_trips_ByRoute(d) ==
    [d EXCEPT !.trips = DeleteWhereIn(@, "route_id", OrphanedTripIds(d))]

remove_orphaned_trips(d) ==
    [d EXCEPT !.trips = DeleteWhereIn(@, "trip_id", OrphanedTripIds(d))]

\* routes LEFT JOIN trips WHERE trips.route_id IS NULL
OrphanedRouteIds(d) ==
    {r.route_id : r \in {x \in d.routes :
                            \A t \in d.trips : t.route_id # x.route_id}}

remove_orphaned_routes(d) ==
    [d EXCEPT !.routes = DeleteWhereIn(@, "route_id", OrphanedRouteIds(d))]

\* MIN(date) and MAX(date) of a non-empty set of YYYYMMDD dates.
DateValue(date) == ParseDigits(date, 1, Len(date), 0)
MinDate(dates) == CHOOSE x \in dates : \A y \in dates : DateValue(x) <= DateValue(y)
\* MAX(date) taken for MIN(date).
MaxDate_Earliest(dates) == MinDate(dates)
MaxDate(dates) == CHOOSE x \in dates : \A y \in dates : DateValue(x) >= DateValue(y)

\* DROP TABLE
DropTable(d, name) == [t \in DOMAIN d \ {name} |-> d[t]]

convert_calendar_dates(d) ==
    LET services == {row.service_id : row \in d.calendar_dates}
        datesOf(sv) == {row.date : row \in {x \in d.calendar_dates : x.service_id = sv}}
        compact  == {[service_id |-> sv,
                      start_date |-> MinDate(datesOf(sv)),
                      end_date   |-> MaxDate(datesOf(sv))] : sv \in services}
    IN  DropTable([d EXCEPT !.calendar = @ \cup compact], "calendar_dates")

shrink_database(d) == DropTable(DropTable(d, "stop_times"), "trips")

-----------------------------------------------------------------------------
(* The query engine of nearby-python-serve.py.  Query coordinates are in   *)
(* micro-degrees, stored coordinates in nano-radians.                      *)

\* The rows of find_stations before ORDER BY: stops joined with
\* cache_stop_routes and routes, nearer than max_distance metres.  route_id
\* is carried only to keep apart two rows that agree on every selected column.
StationRows(d, max_distance, lat, lon) ==
    {[id               |-> p[1].stop_id,
      stop_name        |-> p[1].stop_name,
      route_id         |-> p[3].route_id,
      route_short_name |-> p[3].route_short_name,
      route_long_name  |-> p[3].route_long_name,
      school           |-> p[2].school,
      distance         |-> gps_distance(Radians(lat), Radians(lon),
                                        p[1].stop_lat, p[1].stop_lon)]
        : p \in {q \in d.stops \X d.cache_stop_routes \X d.routes :
                    /\ q[1].stop_id = q[2].stop_id
                    /\ q[2].route_id = q[3].route_id
                    /\ gps_distance(Radians(lat), Radians(lon),
                                    q[1].stop_lat, q[1].stop_lon) < max_distance * 1000}}

\* ORDER BY distance, school
StationBefore(a, b) ==
    a.distance < b.distance \/ (a.distance = b.distance /\ a.school < b.school)

RECURSIVE StationOrders(_)
\* Every order ORDER BY distance, school may return the rows in: rows that
\* agree on both keys come in any order.
StationOrders(rows) ==
    IF rows = {} THEN {<< >>}
    ELSE UNION {{<<m>> \o rest : rest \in StationOrders(rows \ {m})}
                   : m \in {x \in rows : \A y \in rows : ~StationBefore(y, x)}}

find_stations(d, max_distance, lat, lon) ==
    StationOrders(StationRows(d, max_distance, lat, lon))

\* near_points[stop_name] after one more point at the given distance.
AddPoint(near_points, stop_name, distance, point, track) ==
    LET old == IF stop_name \in DOMAIN near_points
               THEN near_points[stop_name]
               ELSE [points |-> << >>, distance_min |-> distance, distance_max |-> distance]
        new == [points       |-> Append(old.points, point),
                distance_min |-> IF track THEN Min(old.distance_min, distance)
                                 ELSE old.distance_min,
                distance_max |-> IF track THEN Max(old.distance_max, distance)
                                 ELSE old.distance_max]
    IN  [n \in DOMAIN near_points \cup {stop_name} |->
            IF n = stop_name THEN new ELSE near_points[n]]

\* The skip tests without the one that drops a school row after a regular one.
SkipRow_SameFlagOnly(used, route_short_name, school) ==
    <<route_short_name, school>> \in used

\* The two tests of prepare_stations that skip a row.  used holds pairs
\* <<route_short_name, school>>; the pair (name, 0) the code looks up is the
\* pair (name, False) it stored.
SkipRow(used, route_short_name, school) ==
    \/ <<route_short_name, school>> \in used
    \/ (school /\ <<route_short_name, FALSE>> \in used)

RECURSIVE PrepareStationsFrom(_, _, _, _)
\* The loop of prepare_stations from row i on.
PrepareStationsFrom(rows, i, near_points, used) ==
    IF i > Len(rows) THEN near_points
    ELSE LET row    == rows[i]
             school == (row.school # 0)
         IN  IF SkipRow(used, row.route_short_name, school)
             THEN PrepareStationsFrom(rows, i + 1, near_points, used)
             ELSE PrepareStationsFrom(rows, i + 1,
                      AddPoint(near_points, row.stop_name, row.distance \div 1000,
                               [name      |-> row.route_short_name,
                                long_name |-> row.route_long_name,
                                school    |-> school,
                                type      |-> IF StartsWith(row.id, "ATM-")
                                              THEN "atoumod" ELSE "astuce"],
                               TRUE),
                      used \cup {<<row.route_short_name, school>>})

\* prepare_stations on the rows find_stations returned.
prepare_stations(rows) == PrepareStationsFrom(rows, 1, << >>, {})

\* sin(radians(45/2)) = 0.38268, in thousandths.
SinAngleMilli == 382

\* (asin(delta) * EARTH_DIAMETER) / distance in thousandths, for an offset in
\* nano-radians and a distance in millimetres; asin(x) = x for these offsets.
AxisAngle(delta, distance) ==
    LET mag == (Abs(delta) * (EARTH_DIAMETER \div 1000)) \div distance
    IN  IF delta < 0 THEN 0 - mag ELSE mag

\* The latitude label with north and south exchanged.
LatLabel_Swapped(lat_angle) ==
    IF lat_angle > 0 /\ lat_angle > SinAngleMilli THEN "S"
    ELSE IF lat_angle < 0 /\ lat_angle < 0 - SinAngleMilli THEN "N"
    ELSE ""

LatLabel(lat_angle) ==
    IF lat_angle > 0 /\ lat_angle > SinAngleMilli THEN "N"
    ELSE IF lat_angle < 0 /\ lat_angle < 0 - SinAngleMilli THEN "S"
    ELSE ""

LonLabel(lon_angle) ==
    IF lon_angle > 0 /\ lon_angle > SinAngleMilli THEN "E"
    ELSE IF lon_angle < 0 /\ lon_angle < 0 - SinAngleMilli THEN "W"
    ELSE ""

\* compare_positions: <<int(distance), direction>>.
compare_positions(lat1, lon1, lat2, lon2) ==
    LET rlat1 == Radians(lat1)
        rlon1 == Radians(lon1)
        rlat2 == Radians(lat2)
        rlon2 == Radians(lon2)
        distance == gps_distance(rlat1, rlon1, rlat2, rlon2)
    IN  IF distance < 5000 THEN <<distance \div 1000, "">>
        ELSE <<distance \div 1000,
               LatLabel(AxisAngle(rlat2 - rlat1, distance))
                   \o LonLabel(AxisAngle(rlon2 - rlon1, distance))>>


\* The rows of find_cycle_stops before ORDER BY.
CycleRows(d, max_distance, lat, lon) ==
    {[id       |-> c.cycle_id,
      name     |-> c.cycle_name,
      type     |-> c.cycle_type,
      free     |-> c.cycle_free,
      lat      |-> c.cycle_lat,
      lon      |-> c.cycle_lon,
      distance |-> gps_distance(Radians(lat), Radians(lon), c.cycle_lat, c.cycle_lon)]
        : c \in {x \in d.cycle_stops :
                    gps_distance(Radians(lat), Radians(lon), x.cycle_lat, x.cycle_lon)
                        < max_distance * 1000}}

RECURSIVE CycleOrders(_)
\* Every order ORDER BY distance may return the rows in.
CycleOrders(rows) ==
    IF rows = {} THEN {<< >>}
    ELSE UNION {{<<m>> \o rest : rest \in CycleOrders(rows \ {m})}
                   : m \in {x \in rows : \A y \in rows : x.distance <= y.distance}}

find_cycle_stops(d, max_distance, lat, lon) ==
    CycleOrders(CycleRows(d, max_distance, lat, lon))

RECURSIVE PrepareCycleStopsFrom(_, _, _)
\* The loop of prepare_cycle_stops from row i on: a group's distance_min and
\* distance_max are set when the group is created and not touched again.
PrepareCycleStopsFrom(rows, i, near_points) ==
    IF i > Len(rows) THEN near_points
    ELSE LET row == rows[i] IN
         PrepareCycleStopsFrom(rows, i + 1,
             AddPoint(near_points, row.name, row.distance \div 1000,
                      [type     |-> row.type,
                       name     |-> row.name,
                       free     |-> (row.free # 0),
                       distance |-> row.distance \div 1000],
                      FALSE))

prepare_cycle_stops(rows) == PrepareCycleStopsFrom(rows, 1, << >>)

\* The answers find_facilities can give for one request.
find_facilities(d, latitude, longitude) ==
    {[stations    |-> prepare_stations(srows),
      cycle_stops |-> prepare_cycle_stops(crows)]
        : <<srows, crows>> \in find_stations(d, 300, latitude, longitude)
                                 \X find_cycle_stops(d, 150, latitude, longitude)}

-----------------------------------------------------------------------------
(* import_cycle_data and import_lovelo.                                    *)

\* cycle_name of a cycling-infrastructure record (None).
NoName == "<None>"

RECURSIVE StripFrom(_, _)
\* text without the spaces around it, as float() reads it.
StripFrom(text, i) ==
    IF i > Len(text) THEN ""
    ELSE IF CharAt(text, i) = " " THEN StripFrom(text, i + 1)
    ELSE CharAt(text, i) \o StripFrom(text, i + 1)

\* coordonneesxy[1:-1].split(",")[n]
CoordPart(coordonneesxy, n) ==
    LET inner == SubSeq(coordonneesxy, 2, Len(coordonneesxy) - 1)
        comma == IndexIn(inner, ",", 1)
    IN  IF n = 0 THEN SubSeq(inner, 1, comma - 1)
        ELSE SubSeq(inner, comma + 1, Len(inner))

derive_cycle_latitude(coordonneesxy) ==
    ParseFloat(StripFrom(CoordPart(coordonneesxy, 1), 1))

derive_cycle_longitude(coordonneesxy) ==
    ParseFloat(StripFrom(CoordPart(coordonneesxy, 0), 1))

derive_cycle_type(mobilier) ==
    CASE mobilier = "ARCEAU"   -> 0
      [] mobilier = "PARC"     -> 1
      [] mobilier = "POTELET"  -> 2
      [] mobilier = "RATELIER" -> 3
      [] mobilier = "LOVELO"   -> 4
      [] OTHER                 -> 0 - 1

derive_cycle_free(acces) == IF acces = "LIBRE ACCES" THEN 1 ELSE 0

import_cycle_data(d, cycle_data) ==
    [d EXCEPT !.cycle_stops = import_table(@, "cycle_stops", "CYC-",
        {[cycle_id   |-> row.id_local,
          cycle_name |-> NoName,
          cycle_lat  |-> Radians(derive_cycle_latitude(row.coordonneesxy)),
          cycle_lon  |-> Radians(derive_cycle_longitude(row.coordonneesxy)),
          cycle_type |-> derive_cycle_type(row.mobilier),
          cycle_free |-> derive_cycle_free(row.acces)] : row \in cycle_data})]

import_lovelo(d, lovelo_data) ==
    [d EXCEPT !.cycle_stops = import_table(@, "cycle_stops", "LOV-",
        {[cycle_id   |-> row.station_id,
          cycle_name |-> normalize_name(row.name, CORRECTIONS),
          cycle_lat  |-> Radians(ParseFloat(row.lat)),
          cycle_lon  |-> Radians(ParseFloat(row.lon)),
          cycle_type |-> derive_cycle_type("LOVELO"),
          cycle_free |-> derive_cycle_free("PAYANT")] : row \in lovelo_data})]

-----------------------------------------------------------------------------
(* The feeds a run may be given.                                           *)

MaxAstuceTrips  == 2
MaxAtoumodTrips == 2
MaxOtherTrips   == 1

\* A GTFS archive holding the given trips, each trip a record
\* [trip_id, route_id, service_id, stops], with the routes and stops they use.
\* An archive holds calendar.txt or, with dated set, calendar_dates.txt.
Archive(routeRows, stopRows, chosen, dated) ==
    LET tables ==
            [routes     |-> {r \in routeRows : \E t \in chosen : t.route_id = r.route_id},
             stops      |-> {s \in stopRows : \E t \in chosen : s.stop_id \in t.stops},
             trips      |-> {[route_id |-> t.route_id, service_id |-> t.service_id,
                              trip_id |-> t.trip_id, trip_headsign |-> "x"] : t \in chosen},
             stop_times |-> UNION {{[trip_id |-> t.trip_id, stop_id |-> sid,
                                     arrival_time |-> "08:00:00"] : sid \in t.stops}
                                      : t \in chosen}]
        services == {t.service_id : t \in chosen}
    IN  IF dated /\ chosen # {}
        THEN [calendar_dates |->
                 {[service_id |-> sv, date |-> dt, exception_type |-> "1"]
                     : <<sv, dt>> \in services \X {"20240105", "20240102"}}] @@ tables
        ELSE [calendar |->
                 {[service_id |-> sv, monday |-> "1", start_date |-> "20240101",
                   end_date |-> "20241231"] : sv \in services}] @@ tables

UpTo(templates, most) == {c \in SUBSET templates : Cardinality(c) <= most}

AstuceRoutes ==
    {[route_id |-> "R1", agency_id |-> "1", route_short_name |-> "1",
      route_long_name |-> "A <> B"],
     [route_id |-> "R2", agency_id |-> "1", route_short_name |-> "2",
      route_long_name |-> "e"]}

AstuceStops ==
    {[stop_id |-> "001", stop_name |-> "chu rouen", stop_lat |-> "49.438890",
      stop_lon |-> "1.091721", location_type |-> "0"],
     [stop_id |-> "001ASC", stop_name |-> "ascenseur", stop_lat |-> "49.4389",
      stop_lon |-> "1.091721", location_type |-> "0"],
     [stop_id |-> "002", stop_name |-> "hors zone", stop_lat |-> "49.6",
      stop_lon |-> "1.091721", location_type |-> "0"]}

AstuceVisits ==
    {[code |-> "a", stops |-> {"001"}],
     [code |-> "b", stops |-> {"001ASC"}],
     [code |-> "c", stops |-> {"001", "002"}]}

AstuceTrips ==
    {[trip_id |-> r \o sv \o v.code, route_id |-> r, service_id |-> sv, stops |-> v.stops]
        : <<r, sv, v>> \in ({"R1"} \X {"S1", "IST1", "ASCESC1"} \X AstuceVisits)
                              \cup ({"R2"} \X {"S1"} \X AstuceVisits)}

AstuceFeeds ==
    {Archive(AstuceRoutes, AstuceStops, c, FALSE)
        : c \in UpTo(AstuceTrips, MaxAstuceTrips)}

AtoumodRoutes ==
    {[route_id |-> "Q1", agency_id |-> "2", route_short_name |-> "1",
      route_long_name |-> "A  B"],
     [route_id |-> "Q2", agency_id |-> "2", route_short_name |-> "1",
      route_long_name |-> "A/B"],
     [route_id |-> "Q3", agency_id |-> "2", route_short_name |-> "1",
      route_long_name |-> "A / B"],
     [route_id |-> "Q4", agency_id |-> "2", route_short_name |-> "530",
      route_long_name |-> "f"]}

AtoumodStops ==
    {[stop_id |-> "001", stop_name |-> "gare de rouen", stop_lat |-> "49.439",
      stop_lon |-> "1.091721", location_type |-> "0"]}

AtoumodTrips ==
    {[trip_id |-> r, route_id |-> r, service_id |-> "S1", stops |-> {"001"}]
        : r \in {"Q1", "Q2", "Q3", "Q4"}}

AtoumodFeeds ==
    {Archive(AtoumodRoutes, AtoumodStops, c, TRUE)
        : c \in UpTo(AtoumodTrips, MaxAtoumodTrips)}

OtherRoutes ==
    {[route_id |-> "X1", agency_id |-> "3", route_short_name |-> "N1",
      route_long_name |-> "paris <> rouen"]}

OtherStops ==
    {[stop_id |-> "001", stop_name |-> "rouen rive gauche", stop_lat |-> "49.4301",
      stop_lon |-> "1.0853", location_type |-> "0"]}

OtherTrips ==
    {[trip_id |-> "T1", route_id |-> "X1", service_id |-> "S1", stops |-> {"001"}]}

OtherFeeds(dated) ==
    {Archive(OtherRoutes, OtherStops, c, dated)
        : c \in UpTo(OtherTrips, MaxOtherTrips)}

\* The cycling-infrastructure file and the bike-share station list.
CyclingData ==
    {[id_local |-> "12", coordonneesxy |-> "(49.4395, 1.0918)",
      mobilier |-> "ARCEAU", acces |-> "LIBRE ACCES"],
     [id_local |-> "13", coordonneesxy |-> "(1.091721, 49.438890)",
      mobilier |-> "ARCEAU", acces |-> "LIBRE ACCES"],
     [id_local |-> "14", coordonneesxy |-> "(1.091721, 49.439400)",
      mobilier |-> "PARC", acces |-> "PAYANT"]}

LoveloData ==
    {[station_id |-> "7", name |-> "hotel de ville", lat |-> "49.44327",
      lon |-> "1.09983"]}

-----------------------------------------------------------------------------
(* generate_transport_database: the process_steps, one action each, run in *)
(* order; step counts the steps already run.                               *)

\* The tables the schema script creates.
EmptyDb ==
    [routes |-> {}, stops |-> {}, trips |-> {}, stop_times |-> {}, calendar |-> {},
     calendar_dates |-> {}, cache_stop_routes |-> {}, cycle_stops |-> {}]

NoFile == << >>
NoResult == << >>

\* The positions requests are sent from, in micro-degrees.
QueryPoints ==
    {<<49438890, 1091721>>, <<49439000, 1091721>>, <<49430100, 1085300>>}

Idle ==
    /\ imports = {}
    /\ raw_name = ""
    /\ corrections_txt = << >>
    /\ normalized = << >>
    /\ points = << >>
    /\ direction = << >>

IdleUnchanged ==
    UNCHANGED <<imports, raw_name, corrections_txt, normalized, points, direction>>

Init ==
    /\ \E bbc \in OtherFeeds(FALSE), flx \in OtherFeeds(TRUE),
          ast \in AstuceFeeds, atm \in AtoumodFeeds :
          feeds = [t \in {"BBC-", "FLX-", "AST-", "ATM-", "CYC-", "LOV-"} |->
                      CASE t = "BBC-" -> bbc
                        [] t = "FLX-" -> flx
                        [] t = "AST-" -> ast
                        [] t = "ATM-" -> atm
                        [] t = "CYC-" -> CyclingData
                        [] t = "LOV-" -> LoveloData]
    /\ db = NoFile
    /\ step = 0
    /\ ids = {}
    /\ failed = FALSE
    /\ result = NoResult
    /\ requests = << >>
    /\ Idle

\* What every step leaves alone; no step runs once one has raised.
StepFrame ==
    /\ ~failed
    /\ UNCHANGED <<feeds, failed, result, requests>>
    /\ IdleUnchanged

CreateDatabase ==
    /\ step = 0
    /\ db' = EmptyDb
    /\ step' = 1
    /\ ids' = {}
    /\ StepFrame

ImportBlablacarbus ==
    /\ step = 1
    /\ Readable(feeds["BBC-"])
    /\ db' = import_gtfs_data(db, feeds["BBC-"], GtfsTags[1])
    /\ step' = 2
    /\ ids' = {}
    /\ StepFrame

ImportFlixbus ==
    /\ step = 2
    /\ Readable(feeds["FLX-"])
    /\ db' = import_gtfs_data(db, feeds["FLX-"], GtfsTags[2])
    /\ step' = 3
    /\ ids' = {}
    /\ StepFrame

ImportAstuce ==
    /\ step = 3
    /\ Readable(feeds["AST-"])
    /\ db' = import_gtfs_data(db, feeds["AST-"], GtfsTags[3])
    /\ step' = 4
    /\ ids' = {}
    /\ StepFrame

\* The fourth import left out of the run.
ImportAtoumod_Skipped ==
    /\ step = 4
    /\ db' = db
    /\ step' = 5
    /\ ids' = {}
    /\ StepFrame

ImportAtoumod ==
    /\ step = 4
    /\ Readable(feeds["ATM-"])
    /\ db' = import_gtfs_data(db, feeds["ATM-"], GtfsTags[4])
    /\ step' = 5
    /\ ids' = {}
    /\ StepFrame

GenerateGtfsCache ==
    /\ step = 5
    /\ db' \in generate_gtfs_cache(db)
    /\ step' = 6
    /\ ids' = {}
    /\ StepFrame

RemoveAtoumodDuplicates ==
    /\ step = 6
    /\ db' = remove_atoumod_duplicates(db)
    /\ step' = 7
    /\ ids' = AtoumodDuplicateIds(db)
    /\ StepFrame

ConvertCalendarDates ==
    /\ step = 7
    /\ db' = convert_calendar_dates(db)
    /\ step' = 8
    /\ ids' = {}
    /\ StepFrame

RemoveElevators ==
    /\ step = 8
    /\ db' = remove_elevators(db)
    /\ step' = 9
    /\ ids' = ElevatorTripIds(db)
    /\ StepFrame

RemoveOrphanedStopTimes ==
    /\ step = 9
    /\ db' = remove_orphaned_stop_times(db)
    /\ step' = 10
    /\ ids' = OrphanedStopIds(db)
    /\ StepFrame

RemoveOrphanedTrips ==
    /\ step = 10
    /\ db' = remove_orphaned_trips(db)
    /\ step' = 11
    /\ ids' = OrphanedTripIds(db)
    /\ StepFrame

RemoveOrphanedRoutes ==
    /\ step = 11
    /\ db' = remove_orphaned_routes(db)
    /\ step' = 12
    /\ ids' = OrphanedRouteIds(db)
    /\ StepFrame

ImportCycleData ==
    /\ step = 12
    /\ db' = import_cycle_data(db, feeds["CYC-"])
    /\ step' = 13
    /\ ids' = {}
    /\ StepFrame

ImportLovelo ==
    /\ step = 13
    /\ db' = import_lovelo(db, feeds["LOV-"])
    /\ step' = 14
    /\ ids' = {}
    /\ StepFrame

ShrinkDatabase ==
    /\ step = 14
    /\ db' = shrink_database(db)
    /\ step' = 15
    /\ ids' = {}
    /\ StepFrame

\* A request to the finished store.
FindFacilities ==
    /\ step = 15
    /\ \E p \in QueryPoints :
          \E answer \in find_facilities(db, p[1], p[2]) :
              result' = [latitude |-> p[1], longitude |-> p[2], answer |-> answer]
    /\ UNCHANGED <<feeds, db, step, ids, failed, requests>>
    /\ IdleUnchanged

\* The process_steps of generate_transport_database.
ProcessSteps ==
    \/ CreateDatabase
    \/ ImportBlablacarbus
    \/ ImportFlixbus
    \/ ImportAstuce
    \/ ImportAtoumod
    \/ GenerateGtfsCache
    \/ RemoveAtoumodDuplicates
    \/ ConvertCalendarDates
    \/ RemoveElevators
    \/ RemoveOrphanedStopTimes
    \/ RemoveOrphanedTrips
    \/ RemoveOrphanedRoutes
    \/ ImportCycleData
    \/ ImportLovelo
    \/ ShrinkDatabase

Next == ProcessSteps \/ FindFacilities

Spec == Init /\ [][Next]_vars

-----------------------------------------------------------------------------
(* Claims about the import run (checked under Spec).                       *)

HasStop(d, stop_id) == \E s \in d.stops : s.stop_id = stop_id
HasRoute(d, route_id) == \E r \in d.routes : r.route_id = route_id
HasCacheRow(d, stop_id, route_id) ==
    \E c \in d.cache_stop_routes : c.stop_id = stop_id /\ c.route_id = route_id

\* Some trip of the store belongs to the route and has a stop_time at the stop.
Connected(d, stop_id, route_id) ==
    \E t \in d.trips :
        /\ t.route_id = route_id
        /\ \E st \in d.stop_times : st.trip_id = t.trip_id /\ st.stop_id = stop_id

\* C1: once remove_orphaned_routes has run (and as long as the tables exist)
\* no stop_time references a stop absent from the store, every trip has a
\* stop_time and every route has a trip.
C1_OrphanSweepConverges ==
    step \in 12..14 =>
        /\ \A st \in db.stop_times : HasStop(db, st.stop_id)
        /\ \A t \in db.trips : \E st \in db.stop_times : st.trip_id = t.trip_id
        /\ \A r \in db.routes : \E t \in db.trips : t.route_id = r.route_id

\* C1 witness: remove_orphaned_routes has just deleted routes from a store
\* that still holds trips.
C1_Witness == step = 12 /\ ids # {} /\ db.trips # {} /\ db.stop_times # {}

\* C2 as claimed: after each reconciliation step that follows cache
\* generation, a cache row (s, r) exists if and only if stop s and route r
\* are in the store and a trip of the store connects them.
C2_CacheExactlyLive ==
    step \in 7..12 =>
        /\ \A c \in db.cache_stop_routes :
              /\ HasStop(db, c.stop_id)
              /\ HasRoute(db, c.route_id)
              /\ Connected(db, c.stop_id, c.route_id)
        /\ \A s \in db.stops, r \in db.routes :
              Connected(db, s.stop_id, r.route_id)
                  => HasCacheRow(db, s.stop_id, r.route_id)

\* What the store does keep of C2: from cache generation to the end of the
\* orphan sweep, for every stop s and route r that are both in the store, a
\* cache row (s, r) exists if and only if a trip of the store connects them.
C2_CacheExactForLivePairs ==
    step \in 6..14 =>
        \A s \in db.stops, r \in db.routes :
            HasCacheRow(db, s.stop_id, r.route_id)
                <=> Connected(db, s.stop_id, r.route_id)

\* C2 witness: the orphan sweep has run and the cache holds a row whose stop
\* is not in the store beside a row whose stop and route both are.
C2_Witness ==
    /\ step = 12
    /\ \E c \in db.cache_stop_routes : ~HasStop(db, c.stop_id)
    /\ \E c \in db.cache_stop_routes : HasStop(db, c.stop_id) /\ HasRoute(db, c.route_id)

IsAstuce(route) == Like(route.route_id, "AST-%")
IsAtoumod(route) == Like(route.route_id, "ATM-%")

\* What C3 says of one run of remove_atoumod_duplicates, for the given long
\* names of the secondary feed: with a primary route named "A <> B" in the
\* store, the routes removed are exactly the secondary routes with one of the
\* names, their trips and cache rows go with them, and nothing else changes.
RemovesDuplicatesNamed(names) ==
    (step = 6 /\ step' = 7 /\ \E p \in db.routes : IsAstuce(p) /\ p.route_long_name = "A <> B")
        => LET gone == {q \in db.routes : IsAtoumod(q) /\ q.route_long_name \in names}
               goneIds == {q.route_id : q \in gone}
           IN  /\ db'.routes = db.routes \ gone
               /\ db'.trips = {t \in db.trips : t.route_id \notin goneIds}
               /\ db'.cache_stop_routes =
                      {c \in db.cache_stop_routes : c.route_id \notin goneIds}
               /\ \A p \in db.routes : IsAstuce(p) => p \in db'.routes

\* C3 as claimed: the secondary routes named "A  B" or "A/B" are removed.
C3_RemovesDoubleSpaceOrSlash == [][RemovesDuplicatesNamed({"A  B", "A/B"})]_vars

\* C3 as amended: the secondary routes named "A  B" (marker removed) or
\* "A / B" (marker replaced by a slash, the spaces around it kept) are removed.
C3_RemovesDoubleSpaceOrSpacedSlash == [][RemovesDuplicatesNamed({"A  B", "A / B"})]_vars

\* C3 witness: the step has removed the secondary route named "A / B" while the
\* primary route "A <> B" is in the store.
C3_Witness ==
    /\ step = 7
    /\ "ATM-Q3" \in ids
    /\ \E p \in db.routes : IsAstuce(p) /\ p.route_long_name = "A <> B"

\* The run imports one feed, under the given tag, that holds one stop inside
\* the bounding box, one route, one trip, one stop_time and a calendar row;
\* the other GTFS feeds are empty.
SingleFeed(tag) ==
    LET feed == feeds[tag]
    IN  /\ \A i \in DOMAIN GtfsTags : GtfsTags[i] # tag => feeds[GtfsTags[i]].trips = {}
        /\ Cardinality(feed.stops) = 1
        /\ Cardinality(feed.routes) = 1
        /\ Cardinality(feed.trips) = 1
        /\ Cardinality(feed.stop_times) = 1
        /\ "calendar" \in DOMAIN feed
        /\ Cardinality(feed.calendar) = 1
        /\ \A s \in feed.stops : KeepStop(ParseFloat(s.stop_lat), ParseFloat(s.stop_lon))

\* The identifiers of the feed are none of those the pipeline treats
\* specially: no school service, no elevator service, no elevator stop.
PlainIdentifiers(tag) ==
    /\ \A t \in feeds[tag].trips :
          /\ ~StartsWith(tag \o t.service_id, "AST-IST")
          /\ ~Like(tag \o t.service_id, "AST-ASCESC%")
          /\ ~Like(tag \o t.service_id, "AST-___ASC")
    /\ \A s \in feeds[tag].stops : ~Like(tag \o s.stop_id, "AST-___ASC")

\* The finished store holds exactly one cache row, with school = 0, and an
\* answer to a request sent from the stop's coordinates names the stop with
\* distance_min = distance_max = 0.
OneRegularStation(tag) ==
    /\ Cardinality(db.cache_stop_routes) = 1
    /\ \A c \in db.cache_stop_routes : c.school = 0
    /\ \A s \in feeds[tag].stops :
          (/\ result # NoResult
           /\ result.latitude = ParseFloat(s.stop_lat)
           /\ result.longitude = ParseFloat(s.stop_lon))
          => LET stop_name == normalize_name(s.stop_name, CORRECTIONS)
                 stations  == result.answer.stations
             IN  /\ stop_name \in DOMAIN stations
                 /\ stations[stop_name].distance_min = 0
                 /\ stations[stop_name].distance_max = 0

\* C5 as claimed: after the whole pipeline on any such single feed there is
\* exactly one cache row, school = false, and a request at the stop's
\* coordinates returns the stop at distance 0.
C5_SingleFeedEndToEnd ==
    \A i \in DOMAIN GtfsTags :
        (step = 15 /\ SingleFeed(GtfsTags[i])) => OneRegularStation(GtfsTags[i])

\* C5 as amended: the same, for a feed whose namespaced service identifier is
\* neither a school service (AST-IST...) nor an elevator service
\* (AST-ASCESC..., AST-___ASC) and whose namespaced stop identifier is not an
\* elevator stop (AST-___ASC).
C5_PlainSingleFeedEndToEnd ==
    \A i \in DOMAIN GtfsTags :
        (step = 15 /\ SingleFeed(GtfsTags[i]) /\ PlainIdentifiers(GtfsTags[i]))
            => OneRegularStation(GtfsTags[i])

\* C5 witness: such a run of the primary feed has finished and a request at
\* the stop's coordinates has been answered with a station.
C5_Witness ==
    /\ step = 15
    /\ SingleFeed("AST-")
    /\ PlainIdentifiers("AST-")
    /\ result # NoResult
    /\ \A s \in feeds["AST-"].stops :
          /\ result.latitude = ParseFloat(s.stop_lat)
          /\ result.longitude = ParseFloat(s.stop_lon)
    /\ DOMAIN result.answer.stations # {}

\* What C10 says of one step: a cascading delete whose identifier set is empty
\* leaves every table as it was.  remove_trips runs inside remove_elevators,
\* on the store the first pattern deletion leaves.
EmptySetIsNoOp ==
    /\ (step \in {6, 9, 10, 11} /\ step' = step + 1 /\ ids' = {}) => db' = db
    /\ (step = 8 /\ step' = 9 /\ ids' = {})
           => LET d == DeleteElevatorStops(db) IN remove_trips(d, ids') = d

\* C10: remove_trips, remove_atoumod_duplicates, remove_orphaned_stop_times,
\* remove_orphaned_trips and remove_orphaned_routes, run with an empty
\* identifier set, leave every table of the store unchanged.
C10_EmptyIdSetNoOp == [][EmptySetIsNoOp]_vars

\* C10 witness: remove_orphaned_trips has run with no orphaned trip on a store
\* holding trips, routes, stops and cache rows.
C10_Witness ==
    /\ step = 11
    /\ ids = {}
    /\ db.trips # {}
    /\ db.routes # {}
    /\ db.stops # {}
    /\ db.cache_stop_routes # {}

-----------------------------------------------------------------------------
(* Import runs on archives of stops on and around the bounding box         *)
(* (SpecFilter).                                                           *)

MaxBoundaryStops == 1

\* Latitudes and longitudes as stops.txt gives them: one micro-degree outside
\* each bound, each bound, and a value inside.
BoundaryLatitudes == {"49.250659", "49.25066", "49.4", "49.54676", "49.546761"}
BoundaryLongitudes == {"0.774459", "0.77446", "1.0", "1.28984", "1.289841"}

BoundaryStops ==
    {[stop_id |-> "P" \o lat \o "/" \o lon, stop_name |-> "x", stop_lat |-> lat,
      stop_lon |-> lon, location_type |-> "0"]
        : <<lat, lon>> \in BoundaryLatitudes \X BoundaryLongitudes}

\* An archive holding the given stops and nothing else.
StopsArchive(stopRows) ==
    [routes |-> {}, stops |-> stopRows, trips |-> {}, stop_times |-> {}, calendar |-> {}]

InitFilter ==
    /\ \E i \in DOMAIN GtfsTags, chosen \in UpTo(BoundaryStops, MaxBoundaryStops) :
          feeds = [t \in {"BBC-", "FLX-", "AST-", "ATM-", "CYC-", "LOV-"} |->
                      CASE t = "CYC-" -> CyclingData
                        [] t = "LOV-" -> LoveloData
                        [] t = GtfsTags[i] -> StopsArchive(chosen)
                        [] OTHER -> StopsArchive({})]
    /\ db = NoFile
    /\ step = 0
    /\ ids = {}
    /\ failed = FALSE
    /\ result = NoResult
    /\ requests = << >>
    /\ Idle

SpecFilter == InitFilter /\ [][Next]_vars

InsideBox(latitude, longitude) ==
    /\ MIN_LATITUDE <= latitude /\ latitude <= MAX_LATITUDE
    /\ MIN_LONGITUDE <= longitude /\ longitude <= MAX_LONGITUDE

\* C6: once the four archives are imported, a stop of an archive is in the
\* store if and only if MIN_LATITUDE <= lat <= MAX_LATITUDE and
\* MIN_LONGITUDE <= lon <= MAX_LONGITUDE; a stop on a bound is kept.
C6_GeofilterInclusive ==
    step \in 5..8 =>
        \A i \in DOMAIN GtfsTags : \A s \in feeds[GtfsTags[i]].stops :
            HasStop(db, GtfsTags[i] \o s.stop_id)
                <=> InsideBox(ParseFloat(s.stop_lat), ParseFloat(s.stop_lon))

\* C6 witness: a stop at MAX_LATITUDE and MIN_LONGITUDE has been imported and
\* is in the store.
C6_Witness ==
    /\ step = 5
    /\ \E i \in DOMAIN GtfsTags : \E s \in feeds[GtfsTags[i]].stops :
          /\ ParseFloat(s.stop_lat) = MAX_LATITUDE
          /\ ParseFloat(s.stop_lon) = MIN_LONGITUDE
          /\ HasStop(db, GtfsTags[i] \o s.stop_id)

-----------------------------------------------------------------------------
(* Import runs on archives of the primary feed whose routes share a short  *)
(* name, followed by requests (SpecQuery).                                 *)

MaxQueryTrips == 3

QueryRoutes ==
    {[route_id |-> "R1", agency_id |-> "1", route_short_name |-> "1",
      route_long_name |-> "g"],
     [route_id |-> "R3", agency_id |-> "1", route_short_name |-> "1",
      route_long_name |-> "h"]}

QueryStops ==
    {[stop_id |-> "001", stop_name |-> "chu rouen", stop_lat |-> "49.438890",
      stop_lon |-> "1.091721", location_type |-> "0"],
     [stop_id |-> "003", stop_name |-> "chu nord", stop_lat |-> "49.439100",
      stop_lon |-> "1.091721", location_type |-> "0"],
     [stop_id |-> "004", stop_name |-> "CHU ROUEN", stop_lat |-> "49.439300",
      stop_lon |-> "1.091721", location_type |-> "0"]}

QueryTrips ==
    {[trip_id |-> r \o sv \o st, route_id |-> r, service_id |-> sv, stops |-> {st}]
        : <<r, sv, st>> \in {"R1", "R3"} \X {"S1", "IST1"} \X {"001", "003", "004"}}

InitQuery ==
    /\ \E chosen \in UpTo(QueryTrips, MaxQueryTrips) :
          feeds = [t \in {"BBC-", "FLX-", "AST-", "ATM-", "CYC-", "LOV-"} |->
                      CASE t = "CYC-" -> CyclingData
                        [] t = "LOV-" -> LoveloData
                        [] t = "AST-" -> Archive(QueryRoutes, QueryStops, chosen, FALSE)
                        [] OTHER -> StopsArchive({})]
    /\ db = NoFile
    /\ step = 0
    /\ ids = {}
    /\ failed = FALSE
    /\ result = NoResult
    /\ requests = << >>
    /\ Idle

SpecQuery == InitQuery /\ [][Next]_vars

\* The entries of an answer's stations for a route short name, each a pair
\* <<stop name, position in that name's points>>.
EntriesNamed(stations, short_name) ==
    {e \in UNION {{<<n, i>> : i \in DOMAIN stations[n].points} : n \in DOMAIN stations} :
        stations[e[1]].points[e[2]].name = short_name}

\* The candidate rows of the answered request.
AnsweredRows == StationRows(db, 300, result.latitude, result.longitude)

\* The candidate rows hold a school row and a regular row for one stop and
\* one route short name.
SchoolAndRegularAt(rows, short_name) ==
    \E a \in rows, b \in rows :
        /\ a.id = b.id
        /\ a.route_short_name = short_name /\ b.route_short_name = short_name
        /\ a.school = 1 /\ b.school = 0

ShortNames == {r.route_short_name : r \in db.routes}

\* C4 as claimed: with a school row and a regular row for one stop and one
\* route short name among the candidate rows, the answer holds exactly one
\* entry for that short name, the regular one.
C4_OnlyRegularEntry ==
    (step = 15 /\ result # NoResult) =>
        \A n \in ShortNames :
            SchoolAndRegularAt(AnsweredRows, n)
                => LET entries == EntriesNamed(result.answer.stations, n)
                   IN  /\ Cardinality(entries) = 1
                       /\ \A e \in entries :
                             ~result.answer.stations[e[1]].points[e[2]].school

\* C4 as amended: in that case the answer holds exactly one regular entry for
\* the short name, and it holds a school entry for it (one at most) exactly
\* when a school row of that short name is strictly nearer than every regular
\* row of that short name, which takes another, nearer stop.
C4_OneRegularEntryAndNearerSchool ==
    (step = 15 /\ result # NoResult) =>
        \A n \in ShortNames :
            SchoolAndRegularAt(AnsweredRows, n)
                => LET stations == result.answer.stations
                       entries  == EntriesNamed(stations, n)
                       school   == {e \in entries : stations[e[1]].points[e[2]].school}
                       named    == {r \in AnsweredRows : r.route_short_name = n}
                   IN  /\ Cardinality(entries \ school) = 1
                       /\ Cardinality(school) <= 1
                       /\ school # {} <=>
                              \E a \in named :
                                  /\ a.school = 1
                                  /\ \A b \in named : b.school = 0 => a.distance < b.distance

\* C4 witness: a request has been answered whose candidate rows hold a school
\* row and a regular row for one stop and short name, and the answer holds
\* the regular entry alone.
C4_Witness ==
    /\ step = 15
    /\ result # NoResult
    /\ \E n \in ShortNames :
          /\ SchoolAndRegularAt(AnsweredRows, n)
          /\ Cardinality(EntriesNamed(result.answer.stations, n)) = 1

-----------------------------------------------------------------------------
(* Calls of the helpers on their own: the pipeline is not running.         *)

NoRun ==
    /\ feeds = << >>
    /\ db = NoFile
    /\ step = 0
    /\ ids = {}
    /\ failed = FALSE
    /\ result = NoResult
    /\ requests = << >>

NoRunUnchanged == UNCHANGED <<feeds, db, step, ids, failed, result, requests>>

-----------------------------------------------------------------------------
(* normalize_name applied to a name, then to its own result (SpecNorm).    *)

MaxNameLen == 2
MaxCorrections == 1
MaxApplications == 2

NameLetters == {"a", "b", "A"}

RECURSIVE TextsOfLen(_, _)
TextsOfLen(letters, n) ==
    IF n = 0 THEN {""}
    ELSE {t \o c : <<t, c>> \in TextsOfLen(letters, n - 1) \X letters}

Texts(letters, most) == UNION {TextsOfLen(letters, n) : n \in 0..most}

\* The lines of a corrections file: bad text, good text.
CorrectionLines == {"A", "Ab"} \X {"b", "B", "Aa"}

RECURSIVE ListsOfLen(_, _)
ListsOfLen(lines, n) ==
    IF n = 0 THEN {<< >>}
    ELSE {Append(l, x) : <<l, x>> \in ListsOfLen(lines, n - 1) \X lines}

InitNorm ==
    /\ NoRun
    /\ raw_name \in Texts(NameLetters, MaxNameLen)
    /\ corrections_txt \in UNION {ListsOfLen(CorrectionLines, n) : n \in 0..MaxCorrections}
    /\ normalized = << >>
    /\ imports = {}
    /\ points = << >>
    /\ direction = << >>

\* normalize_name called on the name, or on what the previous call returned.
Normalize ==
    /\ Len(normalized) < MaxApplications
    /\ normalized' = Append(normalized,
                            normalize_name(IF normalized = << >> THEN raw_name
                                           ELSE normalized[Len(normalized)],
                                           corrections_txt))
    /\ UNCHANGED <<raw_name, corrections_txt, imports, points, direction>>
    /\ NoRunUnchanged

NextNorm == Normalize

SpecNorm == InitNorm /\ [][NextNorm]_vars

\* No correction's good text contains another correction's bad text.
NoChainedCollision(corrections) ==
    \A i \in DOMAIN corrections, j \in DOMAIN corrections :
        i # j => ~Contains(corrections[i][2], corrections[j][1])

-----------------------------------------------------------------------------
(* import_table called for records of several feeds (SpecNamespace).       *)

MaxImports == 2

\* base_id: the tags the program passes.
NamespaceTags == {GtfsTags[i] : i \in DOMAIN GtfsTags}

\* Identifiers as the archives give them, some looking like tagged ones.
RawIds == {"1", "001", "AST-1", "TM-1"}

InitNamespace ==
    /\ NoRun
    /\ imports = {}
    /\ raw_name = ""
    /\ corrections_txt = << >>
    /\ normalized = << >>
    /\ points = << >>
    /\ direction = << >>

\* import_table for one stop of the feed tagged base_id; imports keeps the
\* row inserted with the feed and the record it comes from.
ImportTable ==
    /\ Cardinality(imports) < MaxImports
    /\ \E base_id \in NamespaceTags, raw \in RawIds :
          LET record == [stop_id |-> raw, stop_name |-> "x", location_type |-> "0"]
              rows   == import_table({}, "stops", base_id, {record})
          IN  imports' = imports \cup
                  {[base_id |-> base_id, raw |-> raw, row |-> r] : r \in rows}
    /\ UNCHANGED <<raw_name, corrections_txt, normalized, points, direction>>
    /\ NoRunUnchanged

NextNamespace == ImportTable

SpecNamespace == InitNamespace /\ [][NextNamespace]_vars

\* C8: records imported through import_table under distinct tags never get
\* the same namespaced identifier, whatever their raw identifiers.
C8_DistinctTagsNeverCollide ==
    \A a \in imports, b \in imports :
        a.base_id # b.base_id => a.row.stop_id # b.row.stop_id

\* C8 witness: the same raw identifier has been imported under AST- and ATM-.
C8_Witness ==
    \E a \in imports, b \in imports :
        a.base_id = "AST-" /\ b.base_id = "ATM-" /\ a.raw = b.raw

-----------------------------------------------------------------------------
(* compare_positions called from one position on several others            *)
(* (SpecCompare).                                                          *)

MaxComparisons == 3

\* Offsets in micro-degrees: 27 of latitude are 3 m, 900 are 100 m; 900 of
\* longitude are 65 m at this latitude.
LatitudeOffsets == {0 - 900, 0 - 27, 0, 27, 600, 900}
LongitudeOffsets == {0 - 900, 0, 41, 900}

Origin == <<49438890, 1091721>>

InitCompare ==
    /\ NoRun
    /\ points = Origin
    /\ direction = << >>
    /\ imports = {}
    /\ raw_name = ""
    /\ corrections_txt = << >>
    /\ normalized = << >>

\* compare_positions from points to a position not compared yet; direction
\* maps each position compared to what the call returned.
ComparePositions ==
    /\ Cardinality(DOMAIN direction) < MaxComparisons
    /\ \E dlat \in LatitudeOffsets, dlon \in LongitudeOffsets :
          LET target == <<points[1] + dlat, points[2] + dlon>>
          IN  /\ target \notin DOMAIN direction
              /\ direction' = [t \in DOMAIN direction \cup {target} |->
                                  IF t = target
                                  THEN compare_positions(points[1], points[2],
                                                         target[1], target[2])
                                  ELSE direction[t]]
    /\ UNCHANGED <<points, imports, raw_name, corrections_txt, normalized>>
    /\ NoRunUnchanged

NextCompare == ComparePositions

SpecCompare == InitCompare /\ [][NextCompare]_vars

\* The two axis ratios compare_positions tests, for a position compared.
LatRatio(target) ==
    AxisAngle(Radians(target[1]) - Radians(points[1]),
              gps_distance(Radians(points[1]), Radians(points[2]),
                           Radians(target[1]), Radians(target[2])))

LonRatio(target) ==
    AxisAngle(Radians(target[2]) - Radians(points[2]),
              gps_distance(Radians(points[1]), Radians(points[2]),
                           Radians(target[1]), Radians(target[2])))

\* C9: compare_positions gives no label below 5 m; "N" for a position exactly
\* north at 100 m; "NE" for a position to the north-east, at 5 m or more, with
\* both axis ratios above sin(22.5 degrees).
C9_DirectionLabels ==
    \A t \in DOMAIN direction :
        /\ direction[t][1] < 5 => direction[t][2] = ""
        /\ (t[2] = points[2] /\ t[1] > points[1] /\ direction[t][1] = 100)
               => direction[t][2] = "N"
        /\ (/\ t[1] > points[1] /\ t[2] > points[2]
            /\ direction[t][1] >= 5
            /\ LatRatio(t) > SinAngleMilli /\ LonRatio(t) > SinAngleMilli)
               => direction[t][2] = "NE"

\* C9 witness: positions 3 m away, 100 m due north and to the north-east have
\* been compared, with no label, "N" and "NE".
C9_Witness ==
    /\ \E t \in DOMAIN direction : direction[t] = <<3, "">>
    /\ \E t \in DOMAIN direction : t[2] = points[2] /\ direction[t] = <<100, "N">>
    /\ \E t \in DOMAIN direction :
          t[1] > points[1] /\ t[2] > points[2] /\ direction[t][2] = "NE"

-----------------------------------------------------------------------------
(* Import runs on archives some of which lack routes.txt (SpecAbort).      *)

MaxAbortTrips == 1

InitAbort ==
    /\ \E bbc \in OtherFeeds(FALSE), flx \in OtherFeeds(TRUE),
          ast \in {Archive(AstuceRoutes, AstuceStops, c, FALSE)
                      : c \in UpTo(AstuceTrips, MaxAbortTrips)},
          atm \in AtoumodFeeds, broken \in {"", "BBC-", "FLX-", "AST-", "ATM-"} :
          LET whole == [t \in {"BBC-", "FLX-", "AST-", "ATM-"} |->
                           CASE t = "BBC-" -> bbc
                             [] t = "FLX-" -> flx
                             [] t = "AST-" -> ast
                             [] t = "ATM-" -> atm]
          IN  feeds = [t \in {"BBC-", "FLX-", "AST-", "ATM-", "CYC-", "LOV-"} |->
                          CASE t = "CYC-" -> CyclingData
                            [] t = "LOV-" -> LoveloData
                            [] t = broken -> [f \in DOMAIN whole[t] \ {"routes"} |-> whole[t][f]]
                            [] OTHER -> whole[t]]
    /\ db = NoFile
    /\ step = 0
    /\ ids = {}
    /\ failed = FALSE
    /\ result = NoResult
    /\ requests = << >>
    /\ Idle

\* An import step whose archive lacks a file: the exception leaves
\* import_gtfs_data, the step function and generate_transport_database, which
\* catches nothing; the store file stays as the steps before left it.
ImportRaises ==
    /\ ~failed
    /\ step \in 1..4
    /\ ~Readable(feeds[GtfsTags[step]])
    /\ failed' = TRUE
    /\ UNCHANGED <<feeds, db, step, ids, result, requests>>
    /\ IdleUnchanged

SpecAbort == InitAbort /\ [][Next \/ ImportRaises]_vars

\* C11 as claimed: when a step of the run fails, nothing of the run is in the
\* destination store: there is no file, or no table of it holds a row.
C11_NoPartialCommit ==
    failed => (db = NoFile \/ \A t \in DOMAIN db : db[t] = {})

\* C11 witness: the run has failed on a later feed and the store holds the
\* stops of an earlier one.
C11_Witness == failed /\ step >= 2 /\ db.stops # {}

-----------------------------------------------------------------------------
(* Requests served concurrently on the finished store (SpecServe).  Each   *)
(* request runs find_facilities in a thread of its own and opens its own   *)
(* connection with PERFORMANCE_SQLITE_PRAGMAS: locking_mode = EXCLUSIVE    *)
(* with journal_mode = WAL makes the connection take the file lock at its  *)
(* first access and hold it until it is closed; a connection that finds    *)
(* the file locked retries until the connect timeout (5 s) and then raises *)
(* "database is locked".                                                   *)

MaxRequests == 2
MaxServeTrips == 1

InitServe ==
    /\ \E chosen \in UpTo(QueryTrips, MaxServeTrips) :
          feeds = [t \in {"BBC-", "FLX-", "AST-", "ATM-", "CYC-", "LOV-"} |->
                      CASE t = "CYC-" -> CyclingData
                        [] t = "LOV-" -> LoveloData
                        [] t = "AST-" -> Archive(QueryRoutes, QueryStops, chosen, FALSE)
                        [] OTHER -> StopsArchive({})]
    /\ db = NoFile
    /\ step = 0
    /\ ids = {}
    /\ failed = FALSE
    /\ result = NoResult
    /\ requests = [r \in 1..MaxRequests |-> "arrived"]
    /\ Idle

\* SQLiteDB.__enter__ of a request: the connection gets the file lock when no
\* other connection holds it, and goes on retrying otherwise.
Enter ==
    /\ step = 15
    /\ \E r \in DOMAIN requests :
          /\ requests[r] \in {"arrived", "waiting"}
          /\ requests' = [requests EXCEPT ![r] =
                             IF \E o \in DOMAIN requests : requests[o] = "open"
                             THEN "waiting" ELSE "open"]
    /\ UNCHANGED <<feeds, db, step, ids, failed, result>>
    /\ IdleUnchanged

\* The timeout of a request that is retrying runs out while another
\* connection still holds the lock: sqlite3.OperationalError.
GivesUp ==
    /\ \E r \in DOMAIN requests :
          /\ requests[r] = "waiting"
          /\ \E o \in DOMAIN requests : requests[o] = "open"
          /\ requests' = [requests EXCEPT ![r] = "locked"]
    /\ UNCHANGED <<feeds, db, step, ids, failed, result>>
    /\ IdleUnchanged

\* The body of find_facilities and SQLiteDB.__exit__: the two queries, then
\* commit and close, which gives the lock back.
Respond ==
    /\ \E r \in DOMAIN requests :
          /\ requests[r] = "open"
          /\ \E p \in QueryPoints :
                \E answer \in find_facilities(db, p[1], p[2]) :
                    result' = [latitude |-> p[1], longitude |-> p[2], answer |-> answer]
          /\ requests' = [requests EXCEPT ![r] = "answered"]
    /\ UNCHANGED <<feeds, db, step, ids, failed>>
    /\ IdleUnchanged

SpecServe == InitServe /\ [][ProcessSteps \/ Enter \/ GivesUp \/ Respond]_vars

\* C12 as claimed: no request waits for, or fails because of, another
\* request holding the store.
C12_NoRequestWaitsOrFails ==
    \A r \in DOMAIN requests : requests[r] \notin {"waiting", "locked"}

\* C12 witness: one request has been answered and another has failed on the
\* lock the first one held.
C12_Witness ==
    \E r \in DOMAIN requests, o \in DOMAIN requests :
        requests[r] = "answered" /\ requests[o] = "locked"

-----------------------------------------------------------------------------
(* Claims about the order of the steps (checked under Spec).               *)

\* Every trip of every GTFS archive is in the store.
GtfsImported ==
    \A i \in DOMAIN GtfsTags : \A t \in feeds[GtfsTags[i]].trips :
        \E x \in db.trips : x.trip_id = GtfsTags[i] \o t.trip_id

\* Every row of the cycling file and of the bike-share list is in the store.
CycleImported ==
    /\ \A r \in feeds["CYC-"] : \E c \in db.cycle_stops : c.cycle_id = "CYC-" \o r.id_local
    /\ \A r \in feeds["LOV-"] : \E c \in db.cycle_stops : c.cycle_id = "LOV-" \o r.station_id

\* The store holds no orphaned stop_time, trip or route.
SweepDone ==
    /\ \A st \in db.stop_times : HasStop(db, st.stop_id)
    /\ \A t \in db.trips : \E st \in db.stop_times : st.trip_id = t.trip_id
    /\ \A r \in db.routes : \E t \in db.trips : t.route_id = r.route_id

\* C13 as claimed: when cache generation starts every feed is imported, the
\* cycling file and the bike-share list included, and when calendar
\* compaction starts the three orphan sweeps have run.
C13_ImportsThenReconcileThenCompact ==
    [][/\ GenerateGtfsCache => (GtfsImported /\ CycleImported)
       /\ ConvertCalendarDates => step >= 12]_vars

\* C13 as amended: when cache generation starts every GTFS feed is imported
\* and the cycling file and bike-share list are not; calendar compaction runs
\* right after duplicate elimination, so that calendar_dates is gone when
\* elevator removal and each orphan sweep start; the cycling file and the
\* bike-share list are imported after the orphan sweep and before the store
\* is shrunk.
C13_StepOrder ==
    [][/\ GenerateGtfsCache => (GtfsImported /\ db.cycle_stops = {})
       /\ ConvertCalendarDates => (step = 7 /\ db.cycle_stops = {})
       /\ (RemoveElevators \/ RemoveOrphanedStopTimes \/ RemoveOrphanedTrips
              \/ RemoveOrphanedRoutes) => "calendar_dates" \notin DOMAIN db
       /\ ImportCycleData => (SweepDone /\ db.cycle_stops = {})
       /\ ShrinkDatabase => CycleImported]_vars

\* C13 witness: the cycling file has just been imported into a store that has
\* its cache, its calendar compacted and its orphans swept.
C13_Witness ==
    /\ step = 13
    /\ db.cycle_stops # {}
    /\ db.cache_stop_routes # {}
    /\ db.trips # {}
    /\ "calendar_dates" \notin DOMAIN db

-----------------------------------------------------------------------------
(* Claims about the groups of cycling facilities (checked under Spec).     *)

\* The distances of the points of one group of an answer.
PointDistances(group) == {group.points[i].distance : i \in DOMAIN group.points}

\* C14: in an answer, distance_min of every group of cycle_stops is the
\* smallest and distance_max the largest distance of the group's points.
C14_CycleGroupDistanceBounds ==
    (step = 15 /\ result # NoResult) =>
        \A n \in DOMAIN result.answer.cycle_stops :
            LET group == result.answer.cycle_stops[n] IN
                /\ group.distance_min \in PointDistances(group)
                /\ group.distance_max \in PointDistances(group)
                /\ \A x \in PointDistances(group) :
                      group.distance_min <= x /\ x <= group.distance_max

\* C14 witness: an answer with a group of cycle_stops whose points are at
\* different distances.
C14_Witness ==
    /\ step = 15
    /\ result # NoResult
    /\ \E n \in DOMAIN result.answer.cycle_stops :
          Cardinality(PointDistances(result.answer.cycle_stops[n])) >= 2

-----------------------------------------------------------------------------
(* Claims about the cascade of remove_trips (checked under Spec).          *)

\* C15: remove_trips deletes a route only if the deletion leaves it without a
\* trip, so after remove_elevators (the one caller) every trip of the store
\* still has its route.
C15_RouteWithTripsRemains ==
    step = 9 => \A t \in db.trips : HasRoute(db, t.route_id)

\* C15 witness: after remove_elevators, a trip that is not an elevator trip
\* has survived and its route is gone.
C15_Witness ==
    /\ step = 9
    /\ \E t \in db.trips : ~HasRoute(db, t.route_id) /\ t.trip_id \notin ElevatorTripIds(db)

-----------------------------------------------------------------------------
(* Claims about the scope of the deduplication (checked under SpecQuery).  *)

\* C16: the deduplication is per name-group, so every candidate row's route
\* short name is among the points of the group of the row's stop name,
\* whatever the other groups hold.
C16_DedupPerNameGroup ==
    (step = 15 /\ result # NoResult) =>
        \A r \in AnsweredRows :
            /\ r.stop_name \in DOMAIN result.answer.stations
            /\ \E i \in DOMAIN result.answer.stations[r.stop_name].points :
                  result.answer.stations[r.stop_name].points[i].name = r.route_short_name

\* C16 witness: the answered request had two candidate rows with one route
\* short name and one school flag under different stop names.
C16_Witness ==
    /\ step = 15
    /\ result # NoResult
    /\ \E a \in AnsweredRows, b \in AnsweredRows :
          /\ a.stop_name # b.stop_name
          /\ a.route_short_name = b.route_short_name
          /\ a.school = b.school

-----------------------------------------------------------------------------
\* C17: in an answer no group of stations holds a regular entry and a school
\* entry with one route short name.
C17_NoSchoolBesideRegular ==
    (step = 15 /\ result # NoResult) =>
        \A n \in DOMAIN result.answer.stations :
            LET group == result.answer.stations[n].points IN
                \A i \in DOMAIN group, j \in DOMAIN group :
                    group[i].name = group[j].name => group[i].school = group[j].school

\* C17 witness: the answered request had a school row and a regular row with
\* one route short name and one stop name, the school row the nearer.
C17_Witness ==
    /\ step = 15
    /\ result # NoResult
    /\ \E a \in AnsweredRows, b \in AnsweredRows :
          /\ a.stop_name = b.stop_name
          /\ a.route_short_name = b.route_short_name
          /\ a.school = 1 /\ b.school = 0
          /\ a.distance < b.distance

-----------------------------------------------------------------------------
\* C18: remove_atoumod_duplicates leaves the stops as they are, deletes only
\* ATM- routes, and keeps unchanged every route, trip and cache row that is
\* not of a deleted route; it adds and alters no row.
C18_DuplicateRemovalFrame ==
    [][(step = 6 /\ step' = 7) =>
          LET goneIds == {r.route_id : r \in db.routes \ db'.routes}
          IN  /\ db'.stops = db.stops
              /\ \A r \in db.routes \ db'.routes : IsAtoumod(r)
              /\ db'.routes \subseteq db.routes
              /\ db'.trips = {t \in db.trips : t.route_id \notin goneIds}
              /\ db'.cache_stop_routes =
                     {c \in db.cache_stop_routes : c.route_id \notin goneIds}]_vars

\* C18 witness: the step has deleted a route and the store still holds
\* stops, a route of each of the two feeds, a trip and a cache row.
C18_Witness ==
    /\ step = 7
    /\ ids # {}
    /\ db.stops # {}
    /\ \E r \in db.routes : IsAstuce(r)
    /\ \E r \in db.routes : IsAtoumod(r)
    /\ db.trips # {}
    /\ db.cache_stop_routes # {}

-----------------------------------------------------------------------------
-----------------------------------------------------------------------------
\* C20: convert_calendar_dates leaves, for every service identifier of
\* calendar_dates, exactly one calendar row, whose start date is the earliest
\* and whose end date the latest of the service's dates; the rows calendar
\* held stay as they are, no other row is added, and calendar_dates is gone.
C20_CalendarCompaction ==
    [][(step = 7 /\ step' = 8) =>
          LET sparse == db.calendar_dates
              datesOf(sv) == {DateValue(x.date) : x \in {y \in sparse : y.service_id = sv}}
          IN  /\ \A sv \in {x.service_id : x \in sparse} :
                    LET rows == {c \in db'.calendar : c.service_id = sv} IN
                        /\ Cardinality(rows) = 1
                        /\ \A c \in rows :
                              /\ DateValue(c.start_date) \in datesOf(sv)
                              /\ DateValue(c.end_date) \in datesOf(sv)
                              /\ \A v \in datesOf(sv) :
                                    DateValue(c.start_date) <= v /\ v <= DateValue(c.end_date)
              /\ db.calendar \subseteq db'.calendar
              /\ \A c \in db'.calendar \ db.calendar :
                    \E x \in sparse : x.service_id = c.service_id
              /\ "calendar_dates" \notin DOMAIN db']_vars

\* C20 witness: the compaction has run on a store that held calendar rows and
\* the dates of two services, and the calendar has a row from 20240102 to
\* 20240105 for each of the two beside a row it held before.
C20_Witness ==
    /\ step = 8
    /\ "calendar_dates" \notin DOMAIN db
    /\ \E a \in db.calendar, b \in db.calendar, c \in db.calendar :
          /\ a.service_id # b.service_id
          /\ a.start_date = "20240102" /\ a.end_date = "20240105"
          /\ b.start_date = "20240102" /\ b.end_date = "20240105"
          /\ c.start_date = "20240101"

-----------------------------------------------------------------------------
\* C21: from cache generation to the last orphan sweep every step leaves
\* each of stops, routes, trips and stop_times a subset of what it was: no
\* row is added and no field of a row is changed.
C21_ReconciliationOnlyDeletes ==
    [][(step \in 5..11 /\ step' = step + 1) =>
          /\ db'.stops \subseteq db.stops
          /\ db'.routes \subseteq db.routes
          /\ db'.trips \subseteq db.trips
          /\ db'.stop_times \subseteq db.stop_times]_vars

\* C21 witness: the orphan sweep is over, the store holds stops, routes,
\* trips and stop_times, and the steps have deleted some of the trips and
\* some of the stops that were imported.
C21_Witness ==
    /\ step = 12
    /\ db.stops # {} /\ db.routes # {} /\ db.trips # {} /\ db.stop_times # {}
    /\ \E i \in DOMAIN GtfsTags : \E t \in feeds[GtfsTags[i]].trips :
          \A x \in db.trips : x.trip_id # GtfsTags[i] \o t.trip_id
    /\ \E s \in feeds["AST-"].stops :
          /\ KeepStop(ParseFloat(s.stop_lat), ParseFloat(s.stop_lon))
          /\ ~HasStop(db, "AST-" \o s.stop_id)

-----------------------------------------------------------------------------
(* Claims about the coordinates of the cycling file (checked under Spec).  *)

\* The n-th component (0 or 1) of a coordinate field, as a number.
Component(coordonneesxy, n) == ParseFloat(StripFrom(CoordPart(coordonneesxy, n), 1))

\* The field reads as "(lat,lon)": its first component is a latitude and its
\* second a longitude of the Metropole's bounding box.
LatLonFormatted(coordonneesxy) ==
    KeepStop(Component(coordonneesxy, 0), Component(coordonneesxy, 1))

\* C22: once import_cycle_data has run, the facility of every record whose
\* coordinate field is formatted "(lat,lon)" is stored with the radians of
\* the first component as latitude and of the second as longitude.
C22_CycleLatitudeFirst ==
    (step >= 13 /\ db # NoFile) =>
        \A row \in feeds["CYC-"] :
            LatLonFormatted(row.coordonneesxy) =>
                \E c \in db.cycle_stops :
                    /\ c.cycle_id = "CYC-" \o row.id_local
                    /\ c.cycle_lat = Radians(Component(row.coordonneesxy, 0))
                    /\ c.cycle_lon = Radians(Component(row.coordonneesxy, 1))

\* C22 witness: import_cycle_data has stored the facility of a record whose
\* coordinate field is formatted "(lat,lon)".
C22_Witness ==
    /\ step = 13
    /\ \E row \in feeds["CYC-"] :
          /\ LatLonFormatted(row.coordonneesxy)
          /\ \E c \in db.cycle_stops : c.cycle_id = "CYC-" \o row.id_local

-----------------------------------------------------------------------------
\* An elevator stop, by the pattern of its identifier.
IsElevatorStop(stop) == Like(stop.stop_id, "AST-___ASC")

\* C23: in remove_elevators, after the first deletion by pattern and the
\* cascade of remove_trips the store holds no stop matching the pattern, so
\* the second deletion by pattern changes nothing and the step leaves the
\* store that a single pass leaves.
C23_SecondPassNoOp ==
    [][(step = 8 /\ step' = 9) =>
          LET first  == [db EXCEPT !.stops = {s \in @ : ~IsElevatorStop(s)}]
              single == remove_trips(first, ElevatorTripIds(db))
          IN  /\ \A s \in single.stops : ~IsElevatorStop(s)
              /\ db' = single]_vars

\* C23 witness: remove_elevators has run on a feed that had an elevator stop
\* and an elevator trip, and stops are left in the store.
C23_Witness ==
    /\ step = 9
    /\ ids # {}
    /\ \E s \in feeds["AST-"].stops :
          /\ Like("AST-" \o s.stop_id, "AST-___ASC")
          /\ KeepStop(ParseFloat(s.stop_lat), ParseFloat(s.stop_lon))
    /\ db.stops # {}

=============================================================================
